---- MODULE Spec2Model ----
(***************************************************************************)
(* Model of the KERI ACDC verification service                             *)
(* (src/verification-service/app.py) and of the artifact directory the     *)
(* issuer pipeline (src/did-management/generate-credentials.py) writes.    *)
(*                                                                         *)
(* The keripy library is outside the repository.  Of SerderACDC only this  *)
(* is modelled: a parse without makify raises unless the version names     *)
(* ACDC, the fields v, d, i, s are there and d equals the digest of all     *)
(* the other fields; a parse with makify recomputes v and d and fills the  *)
(* missing ones of v, d, i, s, and raises only for a version string of     *)
(* another protocol.                                                       *)
(***************************************************************************)
EXTENDS Naturals, Sequences, FiniteSets, TLC

VARIABLES
    files,            \* the artifact directory .well-known/keri
    GLEIF_ROOT_AID,   \* module global, app.py:35
    kevers,           \* verifier_baser.kevers: aid -> list of key states
    damage,           \* artifact changes made since the last pipeline run
    phase,            \* "idle" | "responded": position of the sequential client
    req,              \* the request the last response answers
    resp,             \* the last HTTP response
    pc,               \* position of each concurrent request thread
    loc,              \* locals of each concurrent request thread
    mixed             \* a thread read the table or root amid another's refresh

vars == <<files, GLEIF_ROOT_AID, kevers, damage, phase, req, resp, pc, loc, mixed>>

----------------------------------------------------------------------------
(* Bounds *)

\* artifact changes (delete, corrupt, rewrite) allowed after a pipeline run
MaxDamage == 1

\* concurrent request threads of the Flask server
NumThreads == 2

----------------------------------------------------------------------------
(* Values *)

NoVal == "none"

\* well-formed identifiers: root, intermediate, subject, and an outsider
AIDs == {"R", "Q", "L", "X"}

\* a string coring.Prefixer rejects
BadAid == "bad!"

KeyOf(aid) == "k" \o aid

Keys == {KeyOf(a) : a \in AIDs}

\* a string coring.Verfer rejects
BadKey == "kbad"

DIDs == {"did:iota:1", "did:iota:2"}

Threads == 1..NumThreads

----------------------------------------------------------------------------
(* Artifact files.  st: "absent" (no file), "badjson" (json.load raises),  *)
(* "ok" (a JSON object).                                                   *)

AbsentIncept == [st |-> "absent", i |-> NoVal, k |-> <<>>]

BadJsonIncept == [st |-> "badjson", i |-> NoVal, k |-> <<>>]

\* the inception record the pipeline writes for aid
InceptRecord(aid) == [st |-> "ok", i |-> aid, k |-> <<KeyOf(aid)>>]

AbsentHabitats == [st |-> "absent", gleif |-> NoVal, qvi |-> NoVal, legal_entity |-> NoVal]

BadJsonHabitats == [st |-> "badjson", gleif |-> NoVal, qvi |-> NoVal, legal_entity |-> NoVal]

HabitatsRecord(g, q, l) == [st |-> "ok", gleif |-> g, qvi |-> q, legal_entity |-> l]

AbsentCred == [st |-> "absent", i |-> NoVal, issuer |-> NoVal]

BadJsonCred == [st |-> "badjson", i |-> NoVal, issuer |-> NoVal]

\* qvi-credential.json: subject i, attribute a.issuer
ParentCredential(q, g) == [st |-> "ok", i |-> q, issuer |-> g]

EmptyStore ==
    [gleifIncept |-> AbsentIncept,
     qviIncept   |-> AbsentIncept,
     habitats    |-> AbsentHabitats,
     icp         |-> [a \in AIDs |-> AbsentIncept],
     qviCred     |-> AbsentCred,
     otherCred   |-> AbsentCred]

\* the files main() leaves behind, on top of what the directory held
PipelineOutput(old, g, q, l) ==
    [gleifIncept |-> InceptRecord(g),
     qviIncept   |-> InceptRecord(q),
     habitats    |-> HabitatsRecord(g, q, l),
     icp         |-> [old.icp EXCEPT ![l] = InceptRecord(l)],
     qviCred     |-> ParentCredential(q, g),
     otherCred   |-> old.otherCred]

----------------------------------------------------------------------------
(* Key-state table *)

NoKevers == [a \in AIDs |-> <<>>]

\* kevers.get(aid): the list of key states, <<>> when there is no entry
KeverGet(kv, aid) == IF aid \in DOMAIN kv THEN kv[aid] ELSE <<>>

\* load_inception_event appending the key state to the identifier's list
load_inception_event_append(kv, event) ==
    IF event.i = NoVal \/ event.k = <<>> \/ event.k[1] = BadKey
    THEN kv
    ELSE [kv EXCEPT ![event.i] = Append(@, <<event.k[1]>>)]

\* load_inception_event: one record into the table, skipped when malformed
load_inception_event(kv, event) ==
    IF event.i = NoVal \/ event.k = <<>> \/ event.k[1] = BadKey
    THEN kv
    ELSE [kv EXCEPT ![event.i] = << <<event.k[1]>> >>]

\* le_icp_path of seed_verifier_database: the aid naming icp/<aid>, or NoVal
LePath(fs) ==
    IF fs.habitats.st = "ok" THEN fs.habitats.legal_entity ELSE NoVal

\* the three loads of seed_verifier_database, each a step of its own
SeedGleif(fs, kv) ==
    CASE fs.gleifIncept.st = "absent"  -> [ok |-> TRUE, kevers |-> kv]
      [] fs.gleifIncept.st = "badjson" -> [ok |-> FALSE, kevers |-> kv]
      [] OTHER -> [ok |-> TRUE, kevers |-> load_inception_event(kv, fs.gleifIncept)]

SeedQvi(fs, kv) ==
    CASE fs.qviIncept.st = "absent"  -> [ok |-> TRUE, kevers |-> kv]
      [] fs.qviIncept.st = "badjson" -> [ok |-> FALSE, kevers |-> kv]
      [] OTHER -> [ok |-> TRUE, kevers |-> load_inception_event(kv, fs.qviIncept)]

SeedLe(fs, lePath, kv) ==
    IF lePath = NoVal \/ lePath \notin AIDs THEN [ok |-> TRUE, kevers |-> kv]
    ELSE CASE fs.icp[lePath].st = "absent"  -> [ok |-> TRUE, kevers |-> kv]
           [] fs.icp[lePath].st = "badjson" -> [ok |-> FALSE, kevers |-> kv]
           [] OTHER -> [ok |-> TRUE, kevers |-> load_inception_event(kv, fs.icp[lePath])]

\* seed_verifier_database: an exception of json.load ends the load where it is
seed_verifier_database(fs, kv) ==
    LET g == SeedGleif(fs, kv) IN
    IF ~g.ok THEN g.kevers
    ELSE LET q == SeedQvi(fs, g.kevers) IN
         IF ~q.ok THEN q.kevers
         ELSE SeedLe(fs, LePath(fs), q.kevers).kevers

\* the first half of refresh_verifier_state: GLEIF_ROOT_AID from gleif-incept.json
RefreshRoot(fs, root) ==
    CASE fs.gleifIncept.st = "absent"  -> [ok |-> TRUE, root |-> root]
      [] fs.gleifIncept.st = "badjson" -> [ok |-> FALSE, root |-> root]
      [] OTHER ->
           [ok |-> TRUE,
            root |-> IF fs.gleifIncept.i # NoVal /\ fs.gleifIncept.i # root
                     THEN fs.gleifIncept.i ELSE root]

\* refresh_verifier_state as one step: its return value, the root and the table
refresh_verifier_state(fs, root, kv) ==
    LET r == RefreshRoot(fs, root) IN
    IF ~r.ok THEN [ok |-> FALSE, root |-> root, kevers |-> kv]
    ELSE [ok |-> TRUE, root |-> r.root, kevers |-> seed_verifier_database(fs, kv)]

----------------------------------------------------------------------------
(* Credentials as submitted to /verify *)

NoProof == [kind |-> "absent", key |-> NoVal]

EmptyProof == [kind |-> "empty", key |-> NoVal]

\* p = {"d": <signature made with key>}
SignedBy(key) == [kind |-> "sig", key |-> key]

\* the self-addressing identifier: a digest of every field but d itself
Said(c) ==
    [v |-> c.v, i |-> c.i, s |-> c.s, aKind |-> c.aKind,
     issuer |-> c.issuer, aka |-> c.aka, p |-> c.p]

\* the d of a body whose d is blank or missing
NoSaid ==
    [v |-> NoVal, i |-> NoVal, s |-> NoVal, aKind |-> "absent",
     issuer |-> NoVal, aka |-> {}, p |-> NoProof]

Body(v, i, s, aKind, issuer, aka, p) ==
    [v |-> v, d |-> NoSaid, i |-> i, s |-> s, aKind |-> aKind,
     issuer |-> issuer, aka |-> aka, p |-> p]

\* SerderACDC(sad=..., makify=True).sad: v and d recomputed, v, d, i, s filled
Makify(c) ==
    LET f == [c EXCEPT !.v = "ACDC",
                       !.i = IF c.i = NoVal THEN "" ELSE c.i,
                       !.s = IF c.s = NoVal THEN "" ELSE c.s]
    IN [f EXCEPT !.d = Said(f)]

\* SerderACDC(sad=..., makify=True) does not raise
MakifyOK(c) == c.v # "KERI"

\* SerderACDC(sad=...) does not raise: fields there, version ACDC, d verified
SerderOK(c) ==
    /\ c.v = "ACDC"
    /\ c.i # NoVal
    /\ c.s # NoVal
    /\ c.d = Said(c)

\* main() of the pipeline: makify the body, then attach the proof to the sad
PipelineCredential(i, aKind, issuer, aka, key) ==
    [Makify(Body("ACDC", i, "S", aKind, issuer, aka, NoProof)) EXCEPT !.p = SignedBy(key)]

----------------------------------------------------------------------------
(* The verification pipeline *)

Rejected(step, reason) ==
    [verified |-> FALSE, step |-> step, reason |-> reason,
     credential_said |-> NoSaid, issuer_aid |-> NoVal, issuance_chain |-> <<>>]

Verified(c, issuer, chain) ==
    [verified |-> TRUE, step |-> "ok", reason |-> NoVal,
     credential_said |-> c.d, issuer_aid |-> issuer, issuance_chain |-> chain]

\* validate_credential_structure: parse, fall back to makify, required fields
validate_credential_structure(c) ==
    IF ~SerderOK(c) /\ ~MakifyOK(c)
    THEN [valid |-> FALSE, reason |-> "Invalid credential format"]
    ELSE LET sad == IF SerderOK(c) THEN c ELSE Makify(c) IN
         IF sad.v = NoVal \/ sad.i = NoVal \/ sad.s = NoVal \/ c.aKind = "absent"
         THEN [valid |-> FALSE, reason |-> "Missing required field"]
         ELSE IF sad.v # "ACDC"
         THEN [valid |-> FALSE, reason |-> "Invalid ACDC version"]
         ELSE [valid |-> TRUE, reason |-> NoVal]

\* Step 1b of verify_acdc_credential: "pass", "reject", or "raise" when
\* credential['a'] is no mapping
BindingCheck(c, expected_did) ==
    IF expected_did = NoVal THEN "pass"
    ELSE IF c.aKind = "str" THEN "raise"
    ELSE IF c.aKind = "dict" /\ expected_did \in c.aka THEN "pass"
    ELSE "reject"

\* coring.Prefixer(qb64=aid) does not raise
PrefixerOK(aid) == aid \in AIDs

\* resolve_credential_and_issuer with a.issuer taken before the caller's issuer_aid
resolve_attribute_first(c, issuer_aid, fs) ==
    IF ~SerderOK(c)
    THEN [resolved |-> FALSE, issuer_aid |-> NoVal, reason |-> "Resolution error"]
    ELSE IF issuer_aid = NoVal /\ c.aKind = "str"
    THEN [resolved |-> FALSE, issuer_aid |-> NoVal, reason |-> "Resolution error"]
    ELSE LET given == IF c.aKind = "dict" /\ c.issuer # NoVal THEN c.issuer
                      ELSE issuer_aid
             resolved == IF given # NoVal THEN given
                         ELSE IF fs.qviCred.st = "ok" THEN fs.qviCred.i ELSE NoVal
         IN IF resolved = NoVal
            THEN [resolved |-> FALSE, issuer_aid |-> NoVal,
                  reason |-> "Unable to determine issuer AID"]
            ELSE IF ~PrefixerOK(resolved)
            THEN [resolved |-> FALSE, issuer_aid |-> NoVal,
                  reason |-> "Invalid issuer AID format"]
            ELSE [resolved |-> TRUE, issuer_aid |-> resolved, reason |-> NoVal]

\* resolve_credential_and_issuer
resolve_credential_and_issuer(c, issuer_aid, fs) ==
    IF ~SerderOK(c)
    THEN [resolved |-> FALSE, issuer_aid |-> NoVal, reason |-> "Resolution error"]
    ELSE IF issuer_aid = NoVal /\ c.aKind = "str"
    THEN [resolved |-> FALSE, issuer_aid |-> NoVal, reason |-> "Resolution error"]
    ELSE LET given == IF issuer_aid # NoVal THEN issuer_aid
                      ELSE IF c.aKind = "dict" THEN c.issuer ELSE NoVal
             resolved == IF given # NoVal THEN given
                         ELSE IF fs.qviCred.st = "ok" THEN fs.qviCred.i ELSE NoVal
         IN IF resolved = NoVal
            THEN [resolved |-> FALSE, issuer_aid |-> NoVal,
                  reason |-> "Unable to determine issuer AID"]
            ELSE IF ~PrefixerOK(resolved)
            THEN [resolved |-> FALSE, issuer_aid |-> NoVal,
                  reason |-> "Invalid issuer AID format"]
            ELSE [resolved |-> TRUE, issuer_aid |-> resolved, reason |-> NoVal]

\* validate_signatures: the issuer's keys are looked up and logged, no
\* signature is checked against them
validate_signatures(c, issuer_aid, kv) ==
    IF c.p.kind = "absent"
    THEN [valid |-> FALSE, reason |-> "No signature data found"]
    ELSE IF ~SerderOK(c)
    THEN [valid |-> FALSE, reason |-> "Signature validation error"]
    ELSE IF c.p.kind = "empty"
    THEN [valid |-> FALSE, reason |-> "Empty signature data"]
    ELSE [valid |-> TRUE, reason |-> NoVal]

ChainEntry(level, aid) == [level |-> level, aid |-> aid]

\* traverse_issuance_chain with the first two entries appended in the other order
traverse_issuer_first(c, issuer_aid, fs) ==
    LET gleif_aid == IF fs.qviCred.st = "ok" /\ fs.qviCred.i = issuer_aid
                     THEN fs.qviCred.issuer ELSE NoVal
        chain == <<ChainEntry("QVI", issuer_aid), ChainEntry("Legal Entity", c.i)>>
    IN IF gleif_aid = NoVal
       THEN [valid |-> FALSE, chain |-> <<>>, reason |-> "Chain traversal failed"]
       ELSE [valid |-> TRUE, chain |-> Append(chain, ChainEntry("GLEIF", gleif_aid)),
             reason |-> NoVal]

\* traverse_issuance_chain
traverse_issuance_chain(c, issuer_aid, fs) ==
    LET gleif_aid == IF fs.qviCred.st = "ok" /\ fs.qviCred.i = issuer_aid
                     THEN fs.qviCred.issuer ELSE NoVal
        chain == <<ChainEntry("Legal Entity", c.i), ChainEntry("QVI", issuer_aid)>>
    IN IF gleif_aid = NoVal
       THEN [valid |-> FALSE, chain |-> <<>>, reason |-> "Chain traversal failed"]
       ELSE [valid |-> TRUE, chain |-> Append(chain, ChainEntry("GLEIF", gleif_aid)),
             reason |-> NoVal]

\* verify_gleif_root without the comparison of app.py:522
RootMatchesAnyAid(chain, root) ==
    /\ chain # <<>>
    /\ chain[Len(chain)].level = "GLEIF"

\* the comparison of verify_gleif_root, app.py:515-523
RootMatches(chain, root) ==
    /\ chain # <<>>
    /\ chain[Len(chain)].level = "GLEIF"
    /\ chain[Len(chain)].aid = root

\* the key-state check of verify_gleif_root asking only that the table holds some entry
TableHasKeys(root, kv) ==
    \E aid \in AIDs : KeverGet(kv, aid) # <<>>

\* the key-state check of verify_gleif_root, app.py:526-540
RootHasKeys(root, kv) ==
    /\ KeverGet(kv, root) # <<>>
    /\ KeverGet(kv, root)[Len(KeverGet(kv, root))] # <<>>

verify_gleif_root(chain, root, kv) ==
    IF ~RootMatches(chain, root)
    THEN [valid |-> FALSE, reason |-> "GLEIF AID mismatch"]
    ELSE IF ~RootHasKeys(root, kv)
    THEN [valid |-> FALSE, reason |-> "GLEIF AID not found in database"]
    ELSE [valid |-> TRUE, reason |-> NoVal]

\* Steps 1 to 3 without the except clause of app.py:310-316: an exception
\* raised by a step leaves the function with no result
FirstStagesUncaught(c, issuer_aid, expected_did, fs, kv) ==
    LET st == validate_credential_structure(c) IN
    IF ~st.valid
    THEN [halt |-> TRUE, issuer_aid |-> NoVal, result |-> Rejected("structure_validation", st.reason)]
    ELSE IF BindingCheck(c, expected_did) = "raise"
    THEN [halt |-> TRUE, issuer_aid |-> NoVal, result |-> Rejected("none", NoVal)]
    ELSE IF BindingCheck(c, expected_did) = "reject"
    THEN [halt |-> TRUE, issuer_aid |-> NoVal, result |-> Rejected("did_binding", "Expected DID not present")]
    ELSE LET rs == resolve_credential_and_issuer(c, issuer_aid, fs) IN
         IF ~rs.resolved
         THEN [halt |-> TRUE, issuer_aid |-> NoVal, result |-> Rejected("resolution", rs.reason)]
         ELSE LET sg == validate_signatures(c, rs.issuer_aid, kv) IN
              IF ~sg.valid
              THEN [halt |-> TRUE, issuer_aid |-> NoVal,
                    result |-> Rejected("signature_validation", sg.reason)]
              ELSE [halt |-> FALSE, issuer_aid |-> rs.issuer_aid,
                    result |-> Rejected("pending", NoVal)]

\* Steps 1 to 3 of verify_acdc_credential: a rejection, or the resolved issuer
FirstStages(c, issuer_aid, expected_did, fs, kv) ==
    LET st == validate_credential_structure(c) IN
    IF ~st.valid
    THEN [halt |-> TRUE, issuer_aid |-> NoVal, result |-> Rejected("structure_validation", st.reason)]
    ELSE IF BindingCheck(c, expected_did) = "raise"
    THEN [halt |-> TRUE, issuer_aid |-> NoVal, result |-> Rejected("process_error", "Verification process error")]
    ELSE IF BindingCheck(c, expected_did) = "reject"
    THEN [halt |-> TRUE, issuer_aid |-> NoVal, result |-> Rejected("did_binding", "Expected DID not present")]
    ELSE LET rs == resolve_credential_and_issuer(c, issuer_aid, fs) IN
         IF ~rs.resolved
         THEN [halt |-> TRUE, issuer_aid |-> NoVal, result |-> Rejected("resolution", rs.reason)]
         ELSE LET sg == validate_signatures(c, rs.issuer_aid, kv) IN
              IF ~sg.valid
              THEN [halt |-> TRUE, issuer_aid |-> NoVal,
                    result |-> Rejected("signature_validation", sg.reason)]
              ELSE [halt |-> FALSE, issuer_aid |-> rs.issuer_aid,
                    result |-> Rejected("pending", NoVal)]

\* Steps 4 and 5 of verify_acdc_credential
LastStages(c, issuer, fs, root, kv) ==
    LET ch == traverse_issuance_chain(c, issuer, fs) IN
    IF ~ch.valid THEN Rejected("chain_traversal", ch.reason)
    ELSE LET gl == verify_gleif_root(ch.chain, root, kv) IN
         IF ~gl.valid THEN Rejected("gleif_verification", gl.reason)
         ELSE Verified(c, issuer, ch.chain)

verify_acdc_credential(c, issuer_aid, expected_did, fs, root, kv) ==
    LET first == FirstStages(c, issuer_aid, expected_did, fs, kv) IN
    IF first.halt THEN first.result
    ELSE LastStages(c, first.issuer_aid, fs, root, kv)

----------------------------------------------------------------------------
(* Requests *)

\* a credential body no stage ever looks at (the request has none)
NoCredential == Body(NoVal, NoVal, NoVal, "absent", NoVal, {}, NoProof)

\* bodies sealed with makify after every field, the proof included, is set
SealedCredentials ==
    {Makify(Body("ACDC", "L", "S", "dict", issuer, aka, SignedBy(KeyOf(signer)))) :
        issuer \in {NoVal, "Q"}, aka \in {{}, {"did:iota:1"}}, signer \in {"Q", "X"}}
    \cup
    {Makify(Body("ACDC", "L", "S", "dict", NoVal, {"did:iota:1"}, p)) :
        p \in {NoProof, EmptyProof}}
    \cup
    {Makify(Body("ACDC", "Q", "S", "dict", issuer, {}, SignedBy(KeyOf("Q")))) :
        issuer \in {NoVal, "Q"}}
    \cup
    {Makify(Body("ACDC", "L", "S", aKind, NoVal, {}, SignedBy(KeyOf("Q")))) :
        aKind \in {"absent", "str"}}

\* the leaf credential as the pipeline writes it: sealed, then signed
WrittenCredentials ==
    {PipelineCredential("L", "dict", NoVal, {"did:iota:1"}, KeyOf(q)) : q \in {"Q", "X"}}

TheLeaf == Makify(Body("ACDC", "L", "S", "dict", NoVal, {"did:iota:1"}, SignedBy(KeyOf("Q"))))

\* a sealed leaf with one field changed afterwards
TamperedCredentials ==
    {[TheLeaf EXCEPT !.i = "X"], [TheLeaf EXCEPT !.aka = {"did:iota:2"}],
     [TheLeaf EXCEPT !.issuer = "X"], [TheLeaf EXCEPT !.issuer = BadAid],
     [TheLeaf EXCEPT !.v = "KERI"], [TheLeaf EXCEPT !.v = NoVal],
     [TheLeaf EXCEPT !.s = NoVal], [TheLeaf EXCEPT !.aKind = "absent"],
     [TheLeaf EXCEPT !.aKind = "str"], [TheLeaf EXCEPT !.p = NoProof],
     [TheLeaf EXCEPT !.p = SignedBy(KeyOf("X"))], [TheLeaf EXCEPT !.d = NoSaid]}

Credentials == SealedCredentials \cup WrittenCredentials \cup TamperedCredentials

Request(body, c, issuer_aid, expected_did) ==
    [body |-> body, credential |-> c, issuer_aid |-> issuer_aid,
     expected_did |-> expected_did]

\* the credentials submitted with every combination of the optional fields
FocusCredentials ==
    {TheLeaf, [TheLeaf EXCEPT !.aka = {"did:iota:2"}],
     Makify(Body("ACDC", "L", "S", "dict", "Q", {"did:iota:1"}, SignedBy(KeyOf("Q")))),
     Makify(Body("ACDC", "L", "S", "str", NoVal, {}, SignedBy(KeyOf("Q"))))}

\* body: "empty" (get_json gives nothing), "nokey" (no 'credential'),
\* "nonobject" ('credential' is no JSON object), "object"
Requests ==
    {Request(b, NoCredential, NoVal, NoVal) : b \in {"empty", "nokey", "nonobject"}}
    \cup
    {Request("object", c, NoVal, NoVal) : c \in Credentials}
    \cup
    {Request("object", c, ia, did) :
        c \in FocusCredentials, ia \in {NoVal, "X", BadAid},
        did \in {NoVal, "did:iota:1", "did:iota:2"}}

NoRequest == Request("none", NoCredential, NoVal, NoVal)

Response(status, success, result) ==
    [status |-> status, success |-> success, details |-> result]

NoResponse == Response(0, FALSE, Rejected("none", NoVal))

\* verify_credential, the POST /verify handler, as one step: the response and
\* the root and table it leaves
verify_credential(r, fs, root, kv) ==
    IF r.body \in {"empty", "nokey"}
    THEN [response |-> Response(400, FALSE, Rejected("request", "Missing 'credential' in request body")),
          root |-> root, kevers |-> kv]
    ELSE IF r.body = "nonobject"
    THEN [response |-> Response(500, FALSE, Rejected("request", "Internal server error")),
          root |-> root, kevers |-> kv]
    ELSE LET rf == refresh_verifier_state(fs, root, kv)
             result == verify_acdc_credential(r.credential, r.issuer_aid, r.expected_did,
                                              fs, rf.root, rf.kevers)
         IN [response |-> IF result.verified THEN Response(200, TRUE, result)
                          ELSE Response(400, FALSE, result),
             root |-> rf.root, kevers |-> rf.kevers]

----------------------------------------------------------------------------
(* State machine *)

Roots == {"R", "X"}

InceptFiles == {"gleifIncept", "qviIncept"}

FileNames == {"gleifIncept", "qviIncept", "habitats", "icp", "qviCred"}

\* file f of the directory replaced: inception records, habitats, credential
WithFile(fs, f, incept, hab, cred) ==
    CASE f = "gleifIncept" -> [fs EXCEPT !.gleifIncept = incept]
      [] f = "qviIncept"   -> [fs EXCEPT !.qviIncept = incept]
      [] f = "icp"         -> [fs EXCEPT !.icp["L"] = incept]
      [] f = "habitats"    -> [fs EXCEPT !.habitats = hab]
      [] OTHER             -> [fs EXCEPT !.qviCred = cred]

FileState(fs, f) ==
    CASE f = "gleifIncept" -> fs.gleifIncept.st
      [] f = "qviIncept"   -> fs.qviIncept.st
      [] f = "icp"         -> fs.icp["L"].st
      [] f = "habitats"    -> fs.habitats.st
      [] OTHER             -> fs.qviCred.st

ThreadsIdle == \A t \in Threads : pc[t] = "idle"

Snapshot(root, kv) == [root |-> root, kevers |-> kv]

NoLocals ==
    [request |-> NoRequest, pre |-> Snapshot(NoVal, NoKevers),
     post |-> Snapshot(NoVal, NoKevers), issuer |-> NoVal, chain |-> <<>>,
     rootSeen |-> NoVal, result |-> Rejected("none", NoVal)]

\* initialize_verifier: the table seeded from the directory found at start
Init ==
    /\ files \in {EmptyStore, PipelineOutput(EmptyStore, "R", "Q", "L")}
    /\ GLEIF_ROOT_AID = "R"
    /\ kevers = seed_verifier_database(files, NoKevers)
    /\ damage = 0
    /\ phase = "idle"
    /\ req = NoRequest
    /\ resp = NoResponse
    /\ pc = [t \in Threads |-> "idle"]
    /\ loc = [t \in Threads |-> NoLocals]
    /\ mixed = FALSE

\* a run of the issuer pipeline, main(): new identifiers, every artifact rewritten
GenerateCredentials(g) ==
    /\ phase = "idle"
    /\ files' = PipelineOutput(files, g, "Q", "L")
    /\ damage' = 0
    /\ UNCHANGED <<GLEIF_ROOT_AID, kevers, phase, req, resp, pc, loc, mixed>>

\* an artifact file removed from the directory
DeleteFile(f) ==
    /\ phase = "idle"
    /\ damage < MaxDamage
    /\ FileState(files, f) # "absent"
    /\ files' = WithFile(files, f, AbsentIncept, AbsentHabitats, AbsentCred)
    /\ damage' = damage + 1
    /\ UNCHANGED <<GLEIF_ROOT_AID, kevers, phase, req, resp, pc, loc, mixed>>

\* an artifact file left unparsable (truncated, half written)
CorruptFile(f) ==
    /\ phase = "idle"
    /\ damage < MaxDamage
    /\ FileState(files, f) = "ok"
    /\ files' = WithFile(files, f, BadJsonIncept, BadJsonHabitats, BadJsonCred)
    /\ damage' = damage + 1
    /\ UNCHANGED <<GLEIF_ROOT_AID, kevers, phase, req, resp, pc, loc, mixed>>

\* an inception record left parsable but malformed: no key list, or a bad key
BreakRecord(f, k) ==
    /\ phase = "idle"
    /\ damage < MaxDamage
    /\ f \in InceptFiles \cup {"icp"}
    /\ FileState(files, f) = "ok"
    /\ files' = WithFile(files, f,
                    [st |-> "ok",
                     i |-> IF f = "gleifIncept" THEN files.gleifIncept.i
                           ELSE IF f = "qviIncept" THEN files.qviIncept.i
                           ELSE files.icp["L"].i,
                     k |-> k],
                    files.habitats, files.qviCred)
    /\ damage' = damage + 1
    /\ UNCHANGED <<GLEIF_ROOT_AID, kevers, phase, req, resp, pc, loc, mixed>>

\* qvi-credential.json replaced by a credential for subject q issued by g
WriteParentCredential(q, g) ==
    /\ phase = "idle"
    /\ damage < MaxDamage
    /\ files.qviCred # ParentCredential(q, g)
    /\ files' = [files EXCEPT !.qviCred = ParentCredential(q, g)]
    /\ damage' = damage + 1
    /\ UNCHANGED <<GLEIF_ROOT_AID, kevers, phase, req, resp, pc, loc, mixed>>

\* a credential for subject q issued by g stored under a name of its own,
\* beside the files the verifier reads
WriteOtherCredential(q, g) ==
    /\ phase = "idle"
    /\ files.otherCred.st = "absent"
    /\ files' = [files EXCEPT !.otherCred = ParentCredential(q, g)]
    /\ UNCHANGED <<GLEIF_ROOT_AID, kevers, damage, phase, req, resp, pc, loc, mixed>>

\* POST /verify handled from request to response with no other request in between
PostVerify(r) ==
    /\ phase = "idle"
    /\ ThreadsIdle
    /\ LET out == verify_credential(r, files, GLEIF_ROOT_AID, kevers) IN
        /\ resp' = out.response
        /\ GLEIF_ROOT_AID' = out.root
        /\ kevers' = out.kevers
    /\ req' = r
    /\ phase' = "responded"
    /\ UNCHANGED <<files, damage, pc, loc, mixed>>

\* the response is sent and the handler returns
Return ==
    /\ phase = "responded"
    /\ phase' = "idle"
    /\ req' = NoRequest
    /\ resp' = NoResponse
    /\ UNCHANGED <<files, GLEIF_ROOT_AID, kevers, damage, pc, loc, mixed>>

Next ==
    \/ \E g \in Roots : GenerateCredentials(g)
    \/ \E f \in FileNames : DeleteFile(f)
    \/ \E f \in FileNames : CorruptFile(f)
    \/ \E f \in FileNames, k \in {<<>>, <<BadKey>>} : BreakRecord(f, k)
    \/ \E q \in {"Q", "X"}, g \in Roots : WriteParentCredential(q, g)
    \/ WriteOtherCredential("X", "R")
    \/ \E r \in Requests : PostVerify(r)
    \/ Return

Spec == Init /\ [][Next]_vars

----------------------------------------------------------------------------
(* Requests served by concurrent threads: the handler one shared read or   *)
(* write at a time                                                         *)

RefreshSteps == {"seed_gleif", "seed_qvi", "seed_le"}

\* thread t is between the first and the last write of its refresh
MidRefresh(t) == pc[t] \in RefreshSteps

\* the root and table now visible are neither what some other thread's refresh
\* started from nor what it leaves when complete
MixedNow(t) ==
    \E u \in Threads \ {t} :
        /\ MidRefresh(u)
        /\ Snapshot(GLEIF_ROOT_AID, kevers) \notin {loc[u].pre, loc[u].post}

ThreadRequests ==
    {Request("object", TheLeaf, NoVal, NoVal),
     Request("object", [TheLeaf EXCEPT !.p = EmptyProof], NoVal, NoVal)}

\* the pipeline runs while requests are in flight, but not amid a refresh
Regenerate(g) ==
    /\ \A t \in Threads : pc[t] \notin {"refresh_root"} \cup RefreshSteps
    /\ files.gleifIncept # InceptRecord(g)
    /\ files' = PipelineOutput(files, g, "Q", "L")
    /\ UNCHANGED <<GLEIF_ROOT_AID, kevers, damage, phase, req, resp, pc, loc, mixed>>

\* verify_credential up to the call of refresh_verifier_state
Receive(t, r) ==
    /\ pc[t] = "idle"
    /\ pc' = [pc EXCEPT ![t] = "refresh_root"]
    /\ loc' = [loc EXCEPT ![t] = [NoLocals EXCEPT !.request = r]]
    /\ UNCHANGED <<files, GLEIF_ROOT_AID, kevers, damage, phase, req, resp, mixed>>

\* refresh_verifier_state up to the assignment of GLEIF_ROOT_AID
StepRefreshRoot(t) ==
    /\ pc[t] = "refresh_root"
    /\ LET r == RefreshRoot(files, GLEIF_ROOT_AID)
           full == refresh_verifier_state(files, GLEIF_ROOT_AID, kevers)
       IN /\ GLEIF_ROOT_AID' = r.root
          /\ pc' = [pc EXCEPT ![t] = IF r.ok THEN "seed_gleif" ELSE "first"]
          /\ loc' = [loc EXCEPT ![t].pre = Snapshot(GLEIF_ROOT_AID, kevers),
                                ![t].post = Snapshot(full.root, full.kevers)]
    /\ UNCHANGED <<files, kevers, damage, phase, req, resp, mixed>>

\* seed_verifier_database: the load of gleif-incept.json
StepSeedGleif(t) ==
    /\ pc[t] = "seed_gleif"
    /\ LET g == SeedGleif(files, kevers) IN
          /\ kevers' = g.kevers
          /\ pc' = [pc EXCEPT ![t] = IF g.ok THEN "seed_qvi" ELSE "first"]
    /\ UNCHANGED <<files, GLEIF_ROOT_AID, damage, phase, req, resp, loc, mixed>>

\* seed_verifier_database: the load of qvi-incept.json
StepSeedQvi(t) ==
    /\ pc[t] = "seed_qvi"
    /\ LET q == SeedQvi(files, kevers) IN
          /\ kevers' = q.kevers
          /\ pc' = [pc EXCEPT ![t] = IF q.ok THEN "seed_le" ELSE "first"]
    /\ UNCHANGED <<files, GLEIF_ROOT_AID, damage, phase, req, resp, loc, mixed>>

\* seed_verifier_database: the load of icp/<legal entity>
StepSeedLe(t) ==
    /\ pc[t] = "seed_le"
    /\ kevers' = SeedLe(files, LePath(files), kevers).kevers
    /\ pc' = [pc EXCEPT ![t] = "first"]
    /\ UNCHANGED <<files, GLEIF_ROOT_AID, damage, phase, req, resp, loc, mixed>>

\* Steps 1 to 3 of verify_acdc_credential; the table is read at app.py:411, 451
StepFirstStages(t) ==
    /\ pc[t] = "first"
    /\ LET rq == loc[t].request
           first == FirstStages(rq.credential, rq.issuer_aid, rq.expected_did, files, kevers)
       IN /\ pc' = [pc EXCEPT ![t] = IF first.halt THEN "done" ELSE "chain"]
          /\ loc' = [loc EXCEPT ![t].issuer = first.issuer_aid,
                                ![t].result = first.result]
    /\ mixed' = (mixed \/ MixedNow(t))
    /\ UNCHANGED <<files, GLEIF_ROOT_AID, kevers, damage, phase, req, resp>>

\* Step 4 of verify_acdc_credential
StepChain(t) ==
    /\ pc[t] = "chain"
    /\ LET ch == traverse_issuance_chain(loc[t].request.credential, loc[t].issuer, files) IN
          /\ pc' = [pc EXCEPT ![t] = IF ch.valid THEN "root" ELSE "done"]
          /\ loc' = [loc EXCEPT ![t].chain = ch.chain,
                                ![t].result = IF ch.valid THEN @
                                              ELSE Rejected("chain_traversal", ch.reason)]
    /\ UNCHANGED <<files, GLEIF_ROOT_AID, kevers, damage, phase, req, resp, mixed>>

\* verify_gleif_root up to the comparison with GLEIF_ROOT_AID, app.py:522
StepRootCompare(t) ==
    /\ pc[t] = "root"
    /\ pc' = [pc EXCEPT ![t] = IF RootMatches(loc[t].chain, GLEIF_ROOT_AID)
                               THEN "root_keys" ELSE "done"]
    /\ loc' = [loc EXCEPT ![t].rootSeen = GLEIF_ROOT_AID,
                          ![t].result = IF RootMatches(loc[t].chain, GLEIF_ROOT_AID) THEN @
                                        ELSE Rejected("gleif_verification", "GLEIF AID mismatch")]
    /\ mixed' = (mixed \/ MixedNow(t))
    /\ UNCHANGED <<files, GLEIF_ROOT_AID, kevers, damage, phase, req, resp>>

\* verify_gleif_root: the root's key state read from the table, app.py:527
StepRootKeys(t) ==
    /\ pc[t] = "root_keys"
    /\ pc' = [pc EXCEPT ![t] = "done"]
    /\ loc' = [loc EXCEPT ![t].result =
                  IF RootHasKeys(GLEIF_ROOT_AID, kevers)
                  THEN Verified(loc[t].request.credential, loc[t].issuer, loc[t].chain)
                  ELSE Rejected("gleif_verification", "GLEIF AID not found in database")]
    /\ mixed' = (mixed \/ MixedNow(t))
    /\ UNCHANGED <<files, GLEIF_ROOT_AID, kevers, damage, phase, req, resp>>

\* verify_credential: the response is built and sent
Respond(t) ==
    /\ pc[t] = "done"
    /\ pc' = [pc EXCEPT ![t] = "idle"]
    /\ loc' = [loc EXCEPT ![t] = NoLocals]
    /\ UNCHANGED <<files, GLEIF_ROOT_AID, kevers, damage, phase, req, resp, mixed>>

NextThreads ==
    \/ \E g \in Roots : Regenerate(g)
    \/ \E t \in Threads, r \in ThreadRequests : Receive(t, r)
    \/ \E t \in Threads : StepRefreshRoot(t)
    \/ \E t \in Threads : StepSeedGleif(t)
    \/ \E t \in Threads : StepSeedQvi(t)
    \/ \E t \in Threads : StepSeedLe(t)
    \/ \E t \in Threads : StepFirstStages(t)
    \/ \E t \in Threads : StepChain(t)
    \/ \E t \in Threads : StepRootCompare(t)
    \/ \E t \in Threads : StepRootKeys(t)
    \/ \E t \in Threads : Respond(t)

SpecThreads == Init /\ [][NextThreads]_vars

----------------------------------------------------------------------------
(* Properties of the sequential service *)

\* a /verify request carrying a credential object has been answered
Responded == phase = "responded" /\ req.body = "object"

Step == resp.details.step

\* the keys of aid's latest key state in the table
IssuerKeys(kv, aid) ==
    IF KeverGet(kv, aid) = <<>> THEN {}
    ELSE LET last == KeverGet(kv, aid)[Len(KeverGet(kv, aid))]
         IN {last[n] : n \in 1..Len(last)}

\* what Step 2 resolved for the answered request
ResolvedIssuer == resolve_credential_and_issuer(req.credential, req.issuer_aid, files)

BeforeSignature == {"structure_validation", "did_binding", "process_error", "resolution"}

BeforeChain == BeforeSignature \cup {"signature_validation"}

BeforeRoot == BeforeChain \cup {"chain_traversal"}

\* the proof was made with a key that is not a current key of the resolved issuer
WrongKey ==
    /\ req.credential.p.kind = "sig"
    /\ ResolvedIssuer.resolved
    /\ req.credential.p.key \notin IssuerKeys(kevers, ResolvedIssuer.issuer_aid)

\* C1: a credential whose proof was made with a key that is not among the
\* resolved issuer's current keys is never verified, and once it reaches the
\* signature stage it is rejected there (step 'signature_validation').
C1_WrongKeyRejected ==
    (Responded /\ WrongKey) =>
        /\ ~resp.details.verified
        /\ Step \notin BeforeSignature => Step = "signature_validation"

\* C2: a credential whose recomputed said differs from its field d is rejected
\* at the structural stage (step 'structure_validation'), no later stage runs.
C2_SaidMismatchRejected ==
    (Responded /\ req.credential.d # Said(req.credential)) =>
        /\ ~resp.details.verified
        /\ Step = "structure_validation"

\* the identifier whose key made the proof
Signer(c) == CHOOSE a \in AIDs \cup {NoVal} :
                IF c.p.kind = "sig" /\ c.p.key \in Keys THEN KeyOf(a) = c.p.key ELSE a = NoVal

\* the answered request carries a well-formed leaf signed by q, names no other
\* issuer, and asks for no DID the leaf does not list
ValidLeaf(q) ==
    /\ Responded
    /\ SerderOK(req.credential)
    /\ req.credential.aKind = "dict"
    /\ Signer(req.credential) = q
    /\ req.credential.i \notin {q, GLEIF_ROOT_AID}
    /\ q # GLEIF_ROOT_AID
    /\ KeyOf(q) \in IssuerKeys(kevers, q)
    /\ req.credential.issuer \in {NoVal, q}
    /\ req.issuer_aid \in {NoVal, q}
    /\ req.expected_did \in {NoVal} \cup req.credential.aka

\* the trust root has a key state with a key
RootKnown == IssuerKeys(kevers, GLEIF_ROOT_AID) # {}

\* subject <- q <- root: the leaf, and q's credential issued by the trust root
ValidChain2 ==
    \E q \in AIDs :
        /\ ValidLeaf(q)
        /\ files.qviCred = ParentCredential(q, GLEIF_ROOT_AID)
        /\ RootKnown

\* subject <- q <- m <- root: q's credential issued by m, m's by the trust root
ValidChain3 ==
    \E q \in AIDs, m \in AIDs \ {GLEIF_ROOT_AID} :
        /\ ValidLeaf(q)
        /\ files.qviCred = ParentCredential(q, m)
        /\ files.otherCred = ParentCredential(m, GLEIF_ROOT_AID)
        /\ RootKnown

\* the identifiers of the returned chain, in the order returned
ChainAids == [n \in 1..Len(resp.details.issuance_chain) |-> resp.details.issuance_chain[n].aid]

\* the chain starts at the credential's subject and ends at the trust root
ChainSubjectToRoot ==
    /\ Len(ChainAids) >= 3
    /\ ChainAids[1] = req.credential.i
    /\ ChainAids[Len(ChainAids)] = GLEIF_ROOT_AID

ConfiguredRoot == "R"

\* the chain was traversed and its top issuer is not root
TopIssuerIsNot(root) ==
    /\ Responded
    /\ Step \notin BeforeRoot
    /\ files.qviCred.st = "ok"
    /\ files.qviCred.issuer # root

\* C4 as stated: a chain whose top issuer is not the configured trust root is
\* rejected at the root stage (step 'gleif_verification'), never verified.
C4_ConfiguredRootOnly ==
    TopIssuerIsNot(ConfiguredRoot) =>
        (~resp.details.verified /\ Step = "gleif_verification")

\* C4 amended: a chain whose top issuer is not the trust root in force once the
\* request's refresh has run is rejected at the root stage, never verified.
C4_RefreshedRootOnly ==
    /\ TopIssuerIsNot(GLEIF_ROOT_AID) =>
          (~resp.details.verified /\ Step = "gleif_verification")
    /\ (Responded /\ resp.details.verified) =>
          ChainAids[Len(ChainAids)] = GLEIF_ROOT_AID

C4_Witness ==
    /\ TopIssuerIsNot(GLEIF_ROOT_AID)
    /\ Step = "gleif_verification"
    /\ SerderOK(req.credential)

\* the leaf passes every check that does not need the parent credential
OtherwiseValidLeaf ==
    /\ Responded
    /\ SerderOK(req.credential)
    /\ req.credential.aKind = "dict"
    /\ req.credential.p.kind = "sig"
    /\ req.credential.issuer \in AIDs \cup {NoVal}
    /\ req.issuer_aid \in AIDs \cup {NoVal}
    /\ req.expected_did \in {NoVal} \cup req.credential.aka

\* qvi-credential.json is missing, unreadable, or about another subject
NoParentCredential ==
    \/ files.qviCred.st # "ok"
    \/ ~ResolvedIssuer.resolved
    \/ files.qviCred.i # ResolvedIssuer.issuer_aid

\* C5: when no parent credential can be located for the intermediate issuer, an
\* otherwise valid leaf is rejected as an incomplete chain (step
\* 'chain_traversal'), by no other stage.
C5_MissingParentIsChainIncomplete ==
    (OtherwiseValidLeaf /\ NoParentCredential) =>
        (~resp.details.verified /\ Step = "chain_traversal")

\* C6: no read of the key-state table or the trust root made during a
\* verification falls between the writes of another request's refresh: each
\* sees the state before that refresh or the state it leaves when complete.
C6_NoMixedRead == ~mixed

\* a file the refresh reads cannot be parsed
RefreshFails(fs) ==
    \/ fs.gleifIncept.st = "badjson"
    \/ fs.qviIncept.st = "badjson"
    \/ fs.habitats.st = "badjson"
    \/ (LePath(fs) \in AIDs /\ fs.icp[LePath(fs)].st = "badjson")

\* C7: a refresh that fails part-way leaves the key-state table and the trust
\* root exactly as they were before it began.
C7_FailedRefreshChangesNothing ==
    [][(phase = "idle" /\ phase' = "responded" /\ req'.body = "object" /\ RefreshFails(files))
          => (GLEIF_ROOT_AID' = GLEIF_ROOT_AID /\ kevers' = kevers)]_vars

\* an inception record with an identifier and a usable first key
WellFormed(rec) == rec.st = "ok" /\ rec.i \in AIDs /\ rec.k # <<>> /\ rec.k[1] \in Keys

\* the inception records the load looks for in the directory
RecordsInStore(fs) ==
    {fs.gleifIncept, fs.qviIncept}
    \cup (IF LePath(fs) \in AIDs THEN {fs.icp[LePath(fs)]} ELSE {})

\* C8: whatever subset of the inception records is malformed, the load leaves
\* every well-formed record's identifier mapped to its keys.
C8_LoadSkipsOnlyMalformed ==
    LET kv == seed_verifier_database(files, kevers) IN
    \A rec \in RecordsInStore(files) :
        WellFormed(rec) => IssuerKeys(kv, rec.i) = {rec.k[1]}

\* C9: once a request's refresh has run, a second refresh over the unchanged
\* artifacts leaves the same identifier-to-keys table and the same trust root.
C9_RefreshIdempotent ==
    Responded =>
        LET again == refresh_verifier_state(files, GLEIF_ROOT_AID, kevers) IN
        /\ again.root = GLEIF_ROOT_AID
        /\ again.kevers = kevers

C9_Witness ==
    /\ Responded
    /\ GLEIF_ROOT_AID = "X"
    /\ IssuerKeys(kevers, "X") = {KeyOf("X")}
    /\ IssuerKeys(kevers, "R") = {KeyOf("R")}
    /\ files.gleifIncept = InceptRecord("X")

\* C10: 200 with success and verified exactly when the pipeline verified; 400
\* for every rejected verification and every malformed request (no body, no
\* 'credential', 'credential' no JSON object).
C10_StatusCodes ==
    phase = "responded" =>
        /\ resp.status = 200 <=> (req.body = "object" /\ resp.details.verified)
        /\ resp.status = 200 => resp.success
        /\ (req.body = "object" /\ ~resp.details.verified) => resp.status = 400
        /\ req.body \in {"empty", "nokey", "nonobject"} => resp.status = 400

----------------------------------------------------------------------------
(* The stages of the answered request, each evaluated on its own *)

StructurePasses == validate_credential_structure(req.credential).valid

BindingPasses == BindingCheck(req.credential, req.expected_did) = "pass"

ResolutionPasses == ResolvedIssuer.resolved

SignaturePasses == validate_signatures(req.credential, ResolvedIssuer.issuer_aid, kevers).valid

ChainResult == traverse_issuance_chain(req.credential, ResolvedIssuer.issuer_aid, files)

RootPasses == verify_gleif_root(ChainResult.chain, GLEIF_ROOT_AID, kevers).valid

\* the tag of the first stage, in the fixed order, that does not pass
FirstFailedStage ==
    IF ~StructurePasses THEN "structure_validation"
    ELSE IF ~BindingPasses THEN "did_binding"
    ELSE IF ~ResolutionPasses THEN "resolution"
    ELSE IF ~SignaturePasses THEN "signature_validation"
    ELSE IF ~ChainResult.valid THEN "chain_traversal"
    ELSE IF ~RootPasses THEN "gleif_verification"
    ELSE "ok"

\* C11: the stages run in the order structure, binding (when expected_did is
\* supplied), resolution, signature, chain traversal, root check, each only if
\* every earlier one passed; a request is verified when all pass, and a
\* rejection carries the step tag of the first stage that failed.
C11_FirstFailedStageTagged ==
    Responded =>
        /\ resp.details.verified <=> FirstFailedStage = "ok"
        /\ Step = FirstFailedStage

\* the identifier resolved for the answered request has no keys in the table
IssuerUnknown ==
    /\ ResolvedIssuer.resolved
    /\ IssuerKeys(kevers, ResolvedIssuer.issuer_aid) = {}

\* C12: when the resolved issuer has no entry (no known keys) in the key-state
\* table, a request that reaches the signature stage is rejected there (step
\* 'signature_validation'), whatever the credential's proof field holds.
C12_UnknownIssuerRejected ==
    (Responded /\ StructurePasses /\ BindingPasses /\ IssuerUnknown) =>
        (~resp.details.verified /\ Step = "signature_validation")

\* C13: no verified result carries an issuance chain in which an identifier
\* occurs at two positions; a request whose ascent from the subject meets an
\* identifier again (the subject is its own resolved issuer) is rejected at
\* chain traversal.
C13_NoCycleVerified ==
    /\ (Responded /\ resp.details.verified) =>
          \A m, n \in 1..Len(ChainAids) : m # n => ChainAids[m] # ChainAids[n]
    /\ (Responded /\ ResolvedIssuer.resolved /\ Step \notin BeforeChain
          /\ req.credential.i = ResolvedIssuer.issuer_aid) =>
          Step = "chain_traversal"

\* the issuer the three sources give, taken in the order: the caller's
\* issuer_aid, the credential's a.issuer, the subject of qvi-credential.json
PriorityIssuer ==
    IF req.issuer_aid # NoVal THEN req.issuer_aid
    ELSE IF req.credential.aKind = "dict" /\ req.credential.issuer # NoVal
    THEN req.credential.issuer
    ELSE IF files.qviCred.st = "ok" THEN files.qviCred.i
    ELSE NoVal

\* the answered request got as far as the resolution stage
ReachedResolution == Responded /\ StructurePasses /\ BindingPasses

C14_WitnessAttribute ==
    /\ ReachedResolution
    /\ req.issuer_aid = NoVal
    /\ req.credential.issuer = "Q"
    /\ files.qviCred.st = "ok"
    /\ files.qviCred.i = "X"
    /\ ResolvedIssuer.issuer_aid = "Q"

\* the credential's attributes hold an alsoKnownAs list with the expected DID
ListsExpectedDid ==
    /\ req.credential.aKind = "dict"
    /\ req.expected_did \in req.credential.aka

\* C15: the binding check runs only when expected_did is supplied; when it
\* runs, a credential whose attributes have no alsoKnownAs list containing
\* that value is rejected with step 'did_binding', and no request whose
\* expected_did is missing from credential.a.alsoKnownAs is ever verified.
C15_BindingMismatchRejected ==
    Responded =>
        /\ req.expected_did = NoVal => Step # "did_binding"
        /\ (req.expected_did # NoVal /\ ~ListsExpectedDid) => ~resp.details.verified
        /\ (req.expected_did # NoVal /\ ~ListsExpectedDid /\ StructurePasses) =>
              Step = "did_binding"

\* C16: a verified result implies that the trust root had, when the root
\* check ran, an entry in the key-state table with at least one key; a request
\* that reaches the root check while the entry is missing or has no keys is
\* rejected there (step 'gleif_verification').
C16_VerifiedRootHasKeys ==
    Responded =>
        /\ resp.details.verified => IssuerKeys(kevers, GLEIF_ROOT_AID) # {}
        /\ (Step \notin BeforeRoot /\ IssuerKeys(kevers, GLEIF_ROOT_AID) = {}) =>
              (~resp.details.verified /\ Step = "gleif_verification")

\* a chain that ends at the trust root, other identifiers in the table, the
\* root's entry missing
C16_Witness ==
    /\ Responded
    /\ Step = "gleif_verification"
    /\ ChainResult.valid
    /\ RootMatches(ChainResult.chain, GLEIF_ROOT_AID)
    /\ IssuerKeys(kevers, GLEIF_ROOT_AID) = {}
    /\ IssuerKeys(kevers, "Q") # {}

\* the step tags verify_acdc_credential gives a rejection
StepTags ==
    {"structure_validation", "did_binding", "resolution", "signature_validation",
     "chain_traversal", "gleif_verification", "process_error"}

\* C17: for every credential and every state of the artifact directory
\* verify_acdc_credential returns one of two shapes: a verified result with
\* the credential's said, the issuer and the issuance chain, or a rejection
\* with a step tag and a reason; an exception raised inside a stage comes
\* back as a tagged rejection, never as a result of neither shape.
C17_StructuredResult ==
    Responded =>
        \/ /\ resp.details.verified
           /\ resp.details.credential_said = req.credential.d
           /\ resp.details.credential_said # NoSaid
           /\ resp.details.issuer_aid \in AIDs
           /\ Len(resp.details.issuance_chain) = 3
        \/ /\ ~resp.details.verified
           /\ Step \in StepTags
           /\ resp.details.reason # NoVal

\* a step raised (credential.a is no object) and the request was answered
\* with a tagged rejection
C17_Witness ==
    /\ Responded
    /\ BindingCheck(req.credential, req.expected_did) = "raise"
    /\ ~resp.details.verified
    /\ Step = "process_error"
    /\ resp.status = 400

\* C18: once a request's refresh has completed, the key-state table holds an
\* entry for an identifier only if an inception record for that identifier is
\* in the artifact directory; entries of removed or replaced records are gone.
C18_NoStaleEntries ==
    (Responded /\ ~RefreshFails(files)) =>
        \A aid \in AIDs :
            IssuerKeys(kevers, aid) # {} =>
                \E rec \in RecordsInStore(files) : rec.st = "ok" /\ rec.i = aid

====
